---- MODULE Spec2Model ----
(***************************************************************************)
(* Model of src/imgviewer.py: the ImageViewer class of tk-image-viewer.     *)
(*                                                                         *)
(* The state is the fields of ImageViewer that the handlers read and write *)
(* (curr_dir, curr_dir_images, curr_img_index, curr_img, the window title)  *)
(* plus the last buffer handed to Image.save.  Each handler bound to a menu *)
(* entry or button is one action.  A handler that raises inside a Tk       *)
(* callback stops at the raising statement: the assignments made before it *)
(* stay, the ones after it never happen, and the main loop goes on.        *)
(*                                                                         *)
(* Strings are TLA+ strings; paths are built and split as the code does.   *)
(* A bitmap is a sequence of rows of pixel values.                         *)
(***************************************************************************)
EXTENDS Integers, Sequences, FiniteSets, TLC

VARIABLES
    curr_dir,         \* self.curr_dir
    curr_dir_images,  \* self.curr_dir_images (Python list, 0-based)
    curr_img_index,   \* self.curr_img_index
    curr_img,         \* self.curr_img: [path, px]; always the image of img_label
    title,            \* self.root.title(...)
    saved,            \* what the handler that ran last handed to Image.save, if anything
    last,             \* history: the handler that ran last, its input, what it raised
    xform,            \* history: the Transform bookkeeping of spec 4.3 for curr_img
    xformView         \* history: the same, each flip counted in the displayed frame

vars == <<curr_dir, curr_dir_images, curr_img_index, curr_img, title, saved,
          last, xform, xformView>>

-----------------------------------------------------------------------------
(* Program constants *)

DIR_LEFT == 0
DIR_RIGHT == 1
FLIP_HORIZONTAL == 0
FLIP_VERTICAL == 1
HEADER == "Tk Image Viewer - "

-----------------------------------------------------------------------------
(* The file system the viewer runs against.  px = <<>> marks a file that    *)
(* PIL cannot decode.                                                       *)

Files ==
    { [dir |-> "./images", name |-> "icon.png", px |-> << <<1, 2>>, <<3, 4>> >>],
      [dir |-> "/a", name |-> "b.png", px |-> << <<21, 22>>, <<23, 24>> >>],
      [dir |-> "/a", name |-> "a.jpg", px |-> << <<11, 12, 13>>, <<14, 15, 16>> >>],
      [dir |-> "/a", name |-> "c.gif", px |-> << <<31, 32>>, <<33, 34>> >>],
      [dir |-> "/e", name |-> "p.PNG", px |-> << <<41, 42>>, <<43, 44>> >>],
      [dir |-> "/m", name |-> "k.png", px |-> << <<51, 52>>, <<53, 54>> >>],
      [dir |-> "/m", name |-> "z.png", px |-> << >>],
      [dir |-> "/m", name |-> "n.txt", px |-> << >>] }

Dirs == { f.dir : f \in Files }

PathOf(f) == f.dir \o "/" \o f.name

\* What the file choosers can return: askopenfilename (a file, a name typed
\* that does not exist, or "" when cancelled), askdirectory (a folder or ""),
\* asksaveasfilename.
OpenPaths == { PathOf(f) : f \in Files } \cup { "", "/a/gone.png" }
OpenDirs == Dirs \cup { "" }
SavePaths == { "/o/x.png", "/o/x.jpg", "/o/x.jpeg", "/o/x.tif", "/o/x.txt", "" }

\* os.listdir(d): the names in d, in arbitrary order.
Perms(S) ==
    { s \in [1..Cardinality(S) -> S] : \A x \in S : \E i \in DOMAIN s : s[i] = x }

listdir(d) == Perms({ f.name : f \in { g \in Files : g.dir = d } })

-----------------------------------------------------------------------------
(* String helpers: str.endswith, os.path.dirname *)

endswith(s, suffix) ==
    /\ Len(s) >= Len(suffix)
    /\ SubSeq(s, Len(s) - Len(suffix) + 1, Len(s)) = suffix

\* str.rfind("/") + 1, counted in characters.
RECURSIVE rfind_sep(_, _)
rfind_sep(p, i) ==
    IF i = 0 THEN 0
    ELSE IF SubSeq(p, i, i) = "/" THEN i
    ELSE rfind_sep(p, i - 1)

RECURSIVE rstrip_sep(_)
rstrip_sep(h) ==
    IF Len(h) > 0 /\ SubSeq(h, Len(h), Len(h)) = "/"
    THEN rstrip_sep(SubSeq(h, 1, Len(h) - 1))
    ELSE h

\* posixpath.dirname: head up to the last "/", trailing slashes stripped
\* unless the head is nothing but slashes.
dirname(p) ==
    LET head == SubSeq(p, 1, rfind_sep(p, Len(p)))
    IN  IF rstrip_sep(head) = "" THEN head ELSE rstrip_sep(head)

-----------------------------------------------------------------------------
(* Pillow *)

\* Image.open / ImageTk.PhotoImage(file = path) succeeds.
CanOpen(path) == \E f \in Files : PathOf(f) = path /\ f.px # << >>

Pixels(path) == (CHOOSE f \in Files : PathOf(f) = path).px

\* ImageTk.PhotoImage(file = path)
PhotoImage(path) == [path |-> path, px |-> Pixels(path)]

\* What PhotoImage raises for a path it cannot load.
OpenError(path) ==
    IF \E f \in Files : PathOf(f) = path
    THEN "UnidentifiedImageError" ELSE "FileNotFoundError"

Height(px) == Len(px)
Width(px) == Len(px[1])

\* Image.transpose(Image.FLIP_LEFT_RIGHT)
FLIP_LEFT_RIGHT(px) ==
    [r \in 1..Height(px) |-> [c \in 1..Width(px) |-> px[r][Width(px) + 1 - c]]]

\* Image.transpose(Image.FLIP_TOP_BOTTOM)
FLIP_TOP_BOTTOM(px) ==
    [r \in 1..Height(px) |-> px[Height(px) + 1 - r]]

\* Image.rotate(90, expand = True): a quarter turn counterclockwise.
ROTATE_90(px) ==
    [r \in 1..Width(px) |-> [c \in 1..Height(px) |-> px[c][Width(px) + 1 - r]]]

\* Image.rotate(-90, expand = True): a quarter turn clockwise.
ROTATE_270(px) ==
    [r \in 1..Width(px) |-> [c \in 1..Height(px) |-> px[Height(px) + 1 - c][r]]]

-----------------------------------------------------------------------------
(* Python list indexing: lst[i] with i in -len..len-1, else IndexError *)

InRange(lst, i) == -Len(lst) <= i /\ i < Len(lst)

GetItem(lst, i) == IF i >= 0 THEN lst[i + 1] ELSE lst[Len(lst) + i + 1]

-----------------------------------------------------------------------------
(* file_supported and collect_image_refs *)

valid_exts == <<".jpg", ".jpeg", ".png", ".bmp", ".gif", ".ico">>

file_supported(file_path) ==
    \E k \in DOMAIN valid_exts : endswith(file_path, valid_exts[k])

\* The list collect_image_refs builds from one listing of directory d.
RECURSIVE collect_image_refs(_, _)
collect_image_refs(d, listing) ==
    IF listing = << >> THEN << >>
    ELSE IF file_supported(Head(listing))
         THEN <<d \o "/" \o Head(listing)>> \o collect_image_refs(d, Tail(listing))
         ELSE collect_image_refs(d, Tail(listing))

-----------------------------------------------------------------------------
(* History bookkeeping *)

Identity == [rotationSteps |-> 0, flipHorizontal |-> FALSE, flipVertical |-> FALSE]

\* The handler that ran, the direction or path it was given, what it raised,
\* and whether the bitmap on display when it started had been turned or
\* mirrored since it was loaded.
Ran(op, dir, path, raised) ==
    [op |-> op, dir |-> dir, path |-> path, raised |-> raised,
     turned |-> curr_img.px # Pixels(curr_img.path)]

NoSave == [path |-> "", mode |-> "", px |-> << >>]

-----------------------------------------------------------------------------
(* __init__: curr_dir = "./images", the list scanned, the first image shown *)

Init ==
    /\ curr_dir = "./images"
    /\ \E listing \in listdir("./images") :
         curr_dir_images = collect_image_refs("./images", listing)
    /\ curr_img_index = 0
    /\ curr_img = PhotoImage(GetItem(curr_dir_images, 0))
    /\ title = HEADER \o GetItem(curr_dir_images, 0)
    /\ saved = NoSave
    /\ last = Ran("__init__", -1, "", "none")
    /\ xform = Identity
    /\ xformView = Identity

-----------------------------------------------------------------------------
(* cycle_image(direction): lines 113-132 *)

\* Lines 118-125: the index after the step, for a list of n entries.
cycle_index(idx, n, direction) ==
    IF direction = DIR_LEFT
    THEN IF idx - 1 < 0 THEN n - 1 ELSE idx - 1
    ELSE IF idx + 1 >= n THEN 0 ELSE idx + 1

cycle_image(direction) ==
    LET idx == cycle_index(curr_img_index, Len(curr_dir_images), direction)
        raised ==
            IF ~InRange(curr_dir_images, idx) THEN "IndexError"
            ELSE IF ~CanOpen(GetItem(curr_dir_images, idx))
                 THEN OpenError(GetItem(curr_dir_images, idx))
                 ELSE "none"
    IN  /\ curr_img_index' = idx
        /\ IF raised = "none"
           THEN /\ curr_img' = PhotoImage(GetItem(curr_dir_images, idx))
                /\ title' = HEADER \o GetItem(curr_dir_images, idx)
                /\ xform' = Identity
                /\ xformView' = Identity
           ELSE UNCHANGED <<curr_img, title, xform, xformView>>
        /\ UNCHANGED <<curr_dir, curr_dir_images>>
        /\ saved' = NoSave
        /\ last' = Ran("cycle_image", direction, "", raised)
    
-----------------------------------------------------------------------------
(* rotate_image(direction): lines 134-146 *)

\* A variant of lines 138-145 that turns clockwise whatever the direction.
rotated_img_one_way(img, direction) ==
    [path |-> img.path, px |-> ROTATE_270(img.px)]

\* A variant of lines 138-145 that turns the pixels of the file instead of
\* the bitmap on display, so that a second rotation does not add to the first.
rotated_img_from_file(img, direction) ==
    [path |-> img.path,
     px |-> IF direction = DIR_LEFT
            THEN ROTATE_90(Pixels(img.path)) ELSE ROTATE_270(Pixels(img.path))]

\* Lines 138-145: ImageTk.getimage(self.curr_img) turned a quarter.
rotated_img(img, direction) ==
    [path |-> img.path,
     px |-> IF direction = DIR_LEFT THEN ROTATE_90(img.px) ELSE ROTATE_270(img.px)]

\* Spec 4.3 rotate: +1 clockwise, -1 counterclockwise, mod 4.
rotate(t, direction) ==
    [t EXCEPT !.rotationSteps =
        (t.rotationSteps + (IF direction = DIR_RIGHT THEN 1 ELSE 3)) % 4]

\* A variant of rotate_image that also goes back to the first entry.
rotate_image_rewinds(direction) ==
    /\ curr_img' = rotated_img(curr_img, direction)
    /\ xform' = rotate(xform, direction)
    /\ xformView' = rotate(xformView, direction)
    /\ curr_img_index' = 0
    /\ UNCHANGED <<curr_dir, curr_dir_images, title>>
    /\ saved' = NoSave
    /\ last' = Ran("rotate_image", direction, "", "none")

rotate_image(direction) ==
    /\ curr_img' = rotated_img(curr_img, direction)
    /\ xform' = rotate(xform, direction)
    /\ xformView' = rotate(xformView, direction)
    /\ UNCHANGED <<curr_dir, curr_dir_images, curr_img_index, title>>
    /\ saved' = NoSave
    /\ last' = Ran("rotate_image", direction, "", "none")

-----------------------------------------------------------------------------
(* flip_image(direction): lines 148-160 *)

\* A variant of lines 152-159 that passes Image.ROTATE_90 to transpose for
\* the horizontal flip.
flipped_img_wrong_method(img, direction) ==
    [path |-> img.path,
     px |-> IF direction = FLIP_HORIZONTAL
            THEN ROTATE_90(img.px) ELSE FLIP_TOP_BOTTOM(img.px)]

\* A variant of lines 152-159 with the two transpose methods exchanged.
flipped_img_swapped(img, direction) ==
    [path |-> img.path,
     px |-> IF direction = FLIP_HORIZONTAL
            THEN FLIP_TOP_BOTTOM(img.px) ELSE FLIP_LEFT_RIGHT(img.px)]

\* Lines 152-159: ImageTk.getimage(self.curr_img) mirrored.
flipped_img(img, direction) ==
    [path |-> img.path,
     px |-> IF direction = FLIP_HORIZONTAL
            THEN FLIP_LEFT_RIGHT(img.px) ELSE FLIP_TOP_BOTTOM(img.px)]

\* Spec 4.3 flip: toggles the boolean of the axis.
flip(t, direction) ==
    IF direction = FLIP_HORIZONTAL
    THEN [t EXCEPT !.flipHorizontal = ~t.flipHorizontal]
    ELSE [t EXCEPT !.flipVertical = ~t.flipVertical]

\* The same, the axis taken in the frame displayed when the flip is made:
\* after an odd number of quarter turns the displayed horizontal axis is
\* the vertical axis of the loaded image.
flip_in_view(t, direction) ==
    IF t.rotationSteps % 2 = 0
    THEN flip(t, direction)
    ELSE flip(t, IF direction = FLIP_HORIZONTAL THEN FLIP_VERTICAL ELSE FLIP_HORIZONTAL)

flip_image(direction) ==
    /\ curr_img' = flipped_img(curr_img, direction)
    /\ xform' = flip(xform, direction)
    /\ xformView' = flip_in_view(xformView, direction)
    /\ UNCHANGED <<curr_dir, curr_dir_images, curr_img_index, title>>
    /\ saved' = NoSave
    /\ last' = Ran("flip_image", direction, "", "none")

-----------------------------------------------------------------------------
(* open_image: lines 162-176 *)

open_image(img_filepath) ==
    /\ curr_dir' = dirname(img_filepath)
    /\ IF CanOpen(img_filepath)
       THEN /\ curr_img' = PhotoImage(img_filepath)
            /\ title' = HEADER \o img_filepath
            /\ \E listing \in listdir(curr_dir') :
                 curr_dir_images' = collect_image_refs(curr_dir', listing)
            /\ xform' = Identity
            /\ xformView' = Identity
            /\ last' = Ran("open_image", -1, img_filepath, "none")
       ELSE /\ UNCHANGED <<curr_img, title, curr_dir_images, xform, xformView>>
            /\ last' = Ran("open_image", -1, img_filepath, OpenError(img_filepath))
    /\ UNCHANGED curr_img_index
    /\ saved' = NoSave

-----------------------------------------------------------------------------
(* open_folder: lines 178-192 *)

open_folder(new_dir) ==
    /\ curr_dir' = new_dir
    /\ IF new_dir \notin Dirs
       THEN \* line 214 has emptied the list when os.listdir raises at line 216
            /\ curr_dir_images' = << >>
            /\ UNCHANGED <<curr_img_index, curr_img, title, xform, xformView>>
            /\ last' = Ran("open_folder", -1, new_dir, "FileNotFoundError")
       ELSE /\ \E listing \in listdir(new_dir) :
                 curr_dir_images' = collect_image_refs(new_dir, listing)
            /\ curr_img_index' = 0
            /\ IF ~InRange(curr_dir_images', 0)
               THEN /\ UNCHANGED <<curr_img, title, xform, xformView>>
                    /\ last' = Ran("open_folder", -1, new_dir, "IndexError")
               ELSE IF ~CanOpen(GetItem(curr_dir_images', 0))
               THEN /\ UNCHANGED <<curr_img, title, xform, xformView>>
                    /\ last' = Ran("open_folder", -1, new_dir,
                                   OpenError(GetItem(curr_dir_images', 0)))
               ELSE /\ curr_img' = PhotoImage(GetItem(curr_dir_images', 0))
                    /\ title' = HEADER \o GetItem(curr_dir_images', 0)
                    /\ xform' = Identity
                    /\ xformView' = Identity
                    /\ last' = Ran("open_folder", -1, new_dir, "none")
    /\ saved' = NoSave

-----------------------------------------------------------------------------
(* save_image: lines 194-208 *)

\* Image.save picks the encoder from the extension of the path, among all
\* the formats Pillow registers (TIFF stands for those the viewer does not
\* offer in its dialog).
save_format(path) ==
    IF endswith(path, ".jpg") \/ endswith(path, ".jpeg") THEN "JPEG"
    ELSE IF endswith(path, ".png") THEN "PNG"
    ELSE IF endswith(path, ".bmp") THEN "BMP"
    ELSE IF endswith(path, ".gif") THEN "GIF"
    ELSE IF endswith(path, ".ico") THEN "ICO"
    ELSE IF endswith(path, ".tif") THEN "TIFF"
    ELSE ""

\* A variant of lines 203-207 that saves the pixels of the file, without
\* the rotations and flips made since it was loaded.
img_to_save_from_file(img, new_img_path) ==
    [path |-> new_img_path,
     mode |-> IF endswith(new_img_path, ".jpg") THEN "RGB" ELSE "RGBA",
     px |-> Pixels(img.path)]

\* Lines 203-207: ImageTk.getimage returns an RGBA image; only a path that
\* ends in ".jpg" gets convert('RGB').
img_to_save(img, new_img_path) ==
    [path |-> new_img_path,
     mode |-> IF endswith(new_img_path, ".jpg") THEN "RGB" ELSE "RGBA",
     px |-> img.px]

\* What Image.save raises: no encoder for the extension, or an RGBA buffer
\* given to the JPEG encoder.
save_error(buf) ==
    IF save_format(buf.path) = "" THEN "ValueError"
    ELSE IF save_format(buf.path) = "JPEG" /\ buf.mode = "RGBA" THEN "OSError"
    ELSE "none"

save_image(new_img_path) ==
    /\ saved' = img_to_save(curr_img, new_img_path)
    /\ UNCHANGED <<curr_dir, curr_dir_images, curr_img_index, curr_img, title,
                   xform, xformView>>
    /\ last' = Ran("save_image", -1, new_img_path, save_error(saved'))

-----------------------------------------------------------------------------

Next ==
    \/ \E direction \in {DIR_LEFT, DIR_RIGHT} : cycle_image(direction)
    \/ \E direction \in {DIR_LEFT, DIR_RIGHT} : rotate_image(direction)
    \/ \E direction \in {FLIP_HORIZONTAL, FLIP_VERTICAL} : flip_image(direction)
    \/ \E img_filepath \in OpenPaths : open_image(img_filepath)
    \/ \E new_dir \in OpenDirs : open_folder(new_dir)
    \/ \E new_img_path \in SavePaths : save_image(new_img_path)

Spec == Init /\ [][Next]_vars

-----------------------------------------------------------------------------
(* Properties *)

Loaders == {"cycle_image", "open_image", "open_folder"}

\* C1: whenever the list of entries is non-empty, the current index is a
\* position of it: 0 <= curr_img_index < len(curr_dir_images).
C1_IndexInRange ==
    Len(curr_dir_images) > 0 =>
        0 <= curr_img_index /\ curr_img_index < Len(curr_dir_images)

\* C2: a cycle_image call made while the list of entries is empty raises
\* nothing and leaves the current index as it was.
C2_CycleOnEmptyIsNoOp ==
    [][ (last'.op = "cycle_image" /\ Len(curr_dir_images) = 0) =>
            (last'.raised = "none" /\ curr_img_index' = curr_img_index) ]_vars

\* The index after k calls of cycle_image in one direction: each call moves
\* the index by lines 118-125 whether or not it goes on to raise, and leaves
\* the list alone.
RECURSIVE cycle_times(_, _, _, _)
cycle_times(idx, n, direction, k) ==
    IF k = 0 THEN idx
    ELSE cycle_times(cycle_index(idx, n, direction), n, direction, k - 1)

\* C3: in every reachable state with N >= 1 entries, N calls of cycle_image
\* in one direction bring the current index back to its value now.
C3_FullCycleIdentity ==
    Len(curr_dir_images) > 0 =>
        \A direction \in {DIR_LEFT, DIR_RIGHT} :
            cycle_times(curr_img_index, Len(curr_dir_images), direction,
                        Len(curr_dir_images)) = curr_img_index

\* C4: with N >= 1 entries and the index i in 0..N-1, Next moves it to i+1
\* (0 from N-1), Previous to i-1 (N-1 from 0), and the image on display
\* afterwards is the entry at the new index.
C4_CycleStepsAndShows ==
    [][ LET n == Len(curr_dir_images)
            i == curr_img_index
        IN  (last'.op = "cycle_image" /\ n >= 1 /\ 0 <= i /\ i < n) =>
              /\ curr_img_index' =
                    IF last'.dir = DIR_RIGHT
                    THEN (IF i < n - 1 THEN i + 1 ELSE 0)
                    ELSE (IF i > 0 THEN i - 1 ELSE n - 1)
              /\ curr_img'.path = curr_dir_images[curr_img_index' + 1] ]_vars

\* list.index(x) with a fall back to 0 when x is not in the list.
position(lst, x) ==
    IF \E i \in DOMAIN lst : lst[i] = x
    THEN (CHOOSE i \in DOMAIN lst : lst[i] = x /\ \A j \in 1..(i - 1) : lst[j] # x) - 1
    ELSE 0

\* C5: after an open_image that loaded its file, the current index is the
\* position of that file in the freshly scanned entries, or 0 when the file
\* is not among them.
C5_OpenImageSetsIndex ==
    (last.op = "open_image" /\ last.raised = "none") =>
        curr_img_index = position(curr_dir_images, last.path)

\* C6: whenever the list of entries is non-empty, the image on display is
\* the one loaded from the entry at the current index.
C6_ShownIsCurrentEntry ==
    Len(curr_dir_images) > 0 =>
        /\ 0 <= curr_img_index /\ curr_img_index < Len(curr_dir_images)
        /\ curr_img.path = curr_dir_images[curr_img_index + 1]

\* d is a folder that exists and holds no supported image.
EmptyDirectory(d) ==
    /\ d \in Dirs
    /\ \A listing \in listdir(d) : collect_image_refs(d, listing) = << >>

\* C7: open_folder on a folder without supported images fails and leaves the
\* active directory, the entries, the index and the displayed bitmap (with
\* its rotations and flips) as they were.
C7_EmptyFolderLeavesState ==
    [][ (last'.op = "open_folder" /\ EmptyDirectory(last'.path)) =>
            /\ last'.raised # "none"
            /\ UNCHANGED <<curr_dir, curr_dir_images, curr_img_index, curr_img>> ]_vars

\* C8: open_image on a path that cannot be decoded leaves the active
\* directory, the entries, the index and the displayed image as they were.
C8_FailedOpenLeavesState ==
    [][ (last'.op = "open_image" /\ ~CanOpen(last'.path)) =>
            UNCHANGED <<curr_dir, curr_dir_images, curr_img_index, curr_img>> ]_vars

\* C9: a cycle_image, open_image or open_folder that changes the image shows
\* the untransformed pixels of the file it loaded (one that raises leaves the
\* displayed bitmap untouched), and each rotate_image / flip_image acts on
\* the bitmap that was on display, of the same file, so that they accumulate.
C9_ReloadResetsTransformsAccumulate ==
    [][ /\ (last'.op \in Loaders /\ last'.raised = "none") =>
              /\ curr_img'.px = Pixels(curr_img'.path)
              /\ xformView' = Identity
        /\ (last'.op \in Loaders /\ last'.raised # "none") =>
              /\ curr_img' = curr_img
              /\ xformView' = xformView
        /\ last'.op = "rotate_image" =>
              /\ curr_img'.path = curr_img.path
              /\ curr_img'.px = IF last'.dir = DIR_RIGHT
                                THEN ROTATE_270(curr_img.px)
                                ELSE ROTATE_90(curr_img.px)
        /\ last'.op = "flip_image" =>
              /\ curr_img'.path = curr_img.path
              /\ curr_img'.px = IF last'.dir = FLIP_HORIZONTAL
                                THEN FLIP_LEFT_RIGHT(curr_img.px)
                                ELSE FLIP_TOP_BOTTOM(curr_img.px) ]_vars

\* A cycle_image has just replaced a turned or mirrored bitmap by a freshly
\* loaded one.
C9_Witness ==
    /\ last.op = "cycle_image"
    /\ last.raised = "none"
    /\ last.turned
    /\ curr_img.px = Pixels(curr_img.path)

\* Two quarter turns have accumulated on one image.
C9_WitnessAccumulated ==
    /\ last.op = "rotate_image"
    /\ xformView.rotationSteps = 2

\* k quarter turns clockwise.
RECURSIVE turn(_, _)
turn(px, k) == IF k = 0 THEN px ELSE turn(ROTATE_270(px), k - 1)

\* Spec 4.3 render: the flips, in the frame of the loaded image, then the
\* rotation.
render(px, t) ==
    LET h == IF t.flipHorizontal THEN FLIP_LEFT_RIGHT(px) ELSE px
        v == IF t.flipVertical THEN FLIP_TOP_BOTTOM(h) ELSE h
    IN  turn(v, t.rotationSteps)

\* C10 as stated: the displayed bitmap is the loaded one with each axis
\* mirrored iff flip_image was called an odd number of times for that axis,
\* then turned by the net rotation.
C10_FlipsInLoadedFrame ==
    curr_img.px = render(Pixels(curr_img.path), xform)

\* C10 amended: the same with each flip counted for the axis of the loaded
\* image that was horizontal (vertical) on display when the flip was made;
\* rotate clockwise, flip horizontal, rotate counterclockwise shows the
\* loaded image mirrored top to bottom, not turned.
C10_FlipsInDisplayedFrame ==
    /\ curr_img.px = render(Pixels(curr_img.path), xformView)
    /\ (xformView.rotationSteps = 0 /\ ~xformView.flipHorizontal /\ xformView.flipVertical)
          => curr_img.px = FLIP_TOP_BOTTOM(Pixels(curr_img.path))

\* A counterclockwise turn has brought the net rotation back to 0 with one
\* horizontal flip made in between, while the image stood turned.
C10_Witness ==
    /\ last.op = "rotate_image"
    /\ last.dir = DIR_LEFT
    /\ xform = [rotationSteps |-> 0, flipHorizontal |-> TRUE, flipVertical |-> FALSE]
    /\ xformView = [rotationSteps |-> 0, flipHorizontal |-> FALSE, flipVertical |-> TRUE]

\* C11: from any orientation of the current image, four clockwise
\* rotate_image calls bring the bitmap back, and a counterclockwise call
\* right after a clockwise one (or the reverse) brings it back.
C11_RotationsCancel ==
    /\ rotated_img(rotated_img(rotated_img(rotated_img(curr_img, DIR_RIGHT),
           DIR_RIGHT), DIR_RIGHT), DIR_RIGHT) = curr_img
    /\ rotated_img(rotated_img(curr_img, DIR_RIGHT), DIR_LEFT) = curr_img
    /\ rotated_img(rotated_img(curr_img, DIR_LEFT), DIR_RIGHT) = curr_img
    /\ (last.op = "rotate_image" /\ xformView = Identity)
          => curr_img.px = Pixels(curr_img.path)

\* A clockwise turn has just brought a turned bitmap of a file that is not
\* square back to the pixels of the file.
C11_Witness ==
    /\ last.op = "rotate_image"
    /\ last.dir = DIR_RIGHT
    /\ last.turned
    /\ curr_img.px = Pixels(curr_img.path)
    /\ Width(curr_img.px) # Height(curr_img.px)

\* C12: from any orientation of the current image, two flip_image calls on
\* the same axis bring the bitmap back.
C12_FlipsCancel ==
    /\ \A direction \in {FLIP_HORIZONTAL, FLIP_VERTICAL} :
          flipped_img(flipped_img(curr_img, direction), direction) = curr_img
    /\ (last.op = "flip_image" /\ xformView = Identity)
          => curr_img.px = Pixels(curr_img.path)

\* A flip has just brought a mirrored bitmap back to the pixels of the file.
C12_Witness ==
    /\ last.op = "flip_image"
    /\ last.turned
    /\ curr_img.px = Pixels(curr_img.path)

\* Character codes, for comparing strings as Python does: the characters
\* that occur in the file names, in ASCII order.
Alphabet == "./0123456789ABCDEFGHIJKLMNOPQRSTUVWXYZ_abcdefghijklmnopqrstuvwxyz"

ord(c) == CHOOSE i \in 1..Len(Alphabet) : SubSeq(Alphabet, i, i) = c

\* a < b for Python strings.
RECURSIVE str_less(_, _)
str_less(a, b) ==
    IF b = "" THEN FALSE
    ELSE IF a = "" THEN TRUE
    ELSE IF SubSeq(a, 1, 1) # SubSeq(b, 1, 1)
         THEN ord(SubSeq(a, 1, 1)) < ord(SubSeq(b, 1, 1))
         ELSE str_less(SubSeq(a, 2, Len(a)), SubSeq(b, 2, Len(b)))

\* The set of entries a scan of directory d must give: d joined with each
\* name in d that file_supported accepts.
scan_set(d) ==
    { PathOf(f) : f \in { g \in Files : g.dir = d /\ file_supported(g.name) } }

Range(lst) == { lst[i] : i \in DOMAIN lst }

\* C13: after an open_folder that showed an image, the entries are the
\* supported files of the folder in lexicographic order of their names,
\* the index is 0 and the first entry is on display.
C13_FolderEntriesSorted ==
    (last.op = "open_folder" /\ last.raised = "none") =>
        /\ Range(curr_dir_images) = scan_set(last.path)
        /\ \A i, j \in DOMAIN curr_dir_images :
              i < j => str_less(curr_dir_images[i], curr_dir_images[j])
        /\ curr_img_index = 0
        /\ curr_img = PhotoImage(curr_dir_images[1])

UpperCase == "ABCDEFGHIJKLMNOPQRSTUVWXYZ"
LowerCase == "abcdefghijklmnopqrstuvwxyz"

\* str.lower
RECURSIVE lower(_)
lower(s) ==
    IF s = "" THEN ""
    ELSE LET c == SubSeq(s, 1, 1)
             up == { i \in 1..Len(UpperCase) : SubSeq(UpperCase, i, i) = c }
         IN  (IF up = {} THEN c
              ELSE LET i == CHOOSE i \in up : TRUE IN SubSeq(LowerCase, i, i))
             \o lower(SubSeq(s, 2, Len(s)))

\* The extension of a file name: from its last "." on, "" when it has none
\* or only a leading one.
extension(name) ==
    LET RECURSIVE rdot(_)
        rdot(i) == IF i = 0 THEN 0
                   ELSE IF SubSeq(name, i, i) = "." THEN i ELSE rdot(i - 1)
        k == rdot(Len(name))
    IN  IF k <= 1 THEN "" ELSE SubSeq(name, k, Len(name))

\* Spec 4.1: the extension, compared case-insensitively, is one of the six.
extension_supported(name) ==
    \E k \in DOMAIN valid_exts : lower(extension(name)) = valid_exts[k]

\* The set of entries the scan of spec 4.1 gives for directory d: d joined
\* with each name in d whose extension, case ignored, is one of the six.
supported_set(d) ==
    { PathOf(f) : f \in { g \in Files : g.dir = d /\ extension_supported(g.name) } }

\* The opened file lies in the active directory, and the entries are, each
\* once, the supported image files of that directory.
EntriesAreScanOf(path) ==
    /\ \E f \in Files : PathOf(f) = path /\ f.dir = curr_dir
    /\ Range(curr_dir_images) = supported_set(curr_dir)
    /\ Cardinality(Range(curr_dir_images)) = Len(curr_dir_images)

\* C14: after an open_image that loaded its file, the active directory is
\* the directory of that file and the entries are exactly the supported
\* image files directly inside it.
C14_OpenImageScansItsFolder ==
    (last.op = "open_image" /\ last.raised = "none") =>
        /\ curr_dir = dirname(last.path)
        /\ EntriesAreScanOf(last.path)

\* The handler that ran last completed a scan of the active directory.
Scanned ==
    \/ last.op = "open_image" /\ last.raised = "none"
    \/ last.op = "open_folder" /\ last.path \in Dirs

\* C15: a scan accepts a directory entry iff its extension, compared
\* case-insensitively, is one of .jpg .jpeg .png .bmp .gif .ico.
C15_ScanFilterIgnoresCase ==
    Scanned =>
        \A f \in { g \in Files : g.dir = curr_dir } :
            (PathOf(f) \in Range(curr_dir_images)) <=> extension_supported(f.name)

\* C16: the buffer save_image hands to Image.save for a path ending in .jpg
\* or .jpeg has no alpha channel.
C16_JpegSavedWithoutAlpha ==
    (last.op = "save_image" /\ (endswith(saved.path, ".jpg") \/ endswith(saved.path, ".jpeg")))
        => saved.mode # "RGBA"

\* C17: rotate_image and flip_image leave the active directory, the entries
\* and the index as they were, and keep the bitmap one of the same file.
C17_TransformsKeepCollection ==
    [][ last'.op \in {"rotate_image", "flip_image"} =>
            /\ UNCHANGED <<curr_dir, curr_dir_images, curr_img_index, title>>
            /\ curr_img'.path = curr_img.path ]_vars

\* A rotation or flip has run on the third entry of a folder.
C17_Witness ==
    /\ last.op \in {"rotate_image", "flip_image"}
    /\ Len(curr_dir_images) = 3
    /\ curr_img_index = 2
    /\ curr_img.px # Pixels(curr_img.path)

\* C18: the buffer a save_image hands to Image.save is the bitmap on
\* display, i.e. the pixels of the file with the rotations and flips made
\* since it was loaded; and save_image, raising or not, leaves the active
\* directory, the entries, the index and the displayed bitmap as they were.
C18_SaveWritesDisplayedKeepsState ==
    [][ last'.op = "save_image" =>
            /\ saved'.px = curr_img.px
            /\ saved'.px = render(Pixels(curr_img.path), xformView)
            /\ saved'.path = last'.path
            /\ UNCHANGED <<curr_dir, curr_dir_images, curr_img_index, curr_img, title>> ]_vars

\* A save_image has written a turned or mirrored bitmap.
C18_Witness ==
    /\ last.op = "save_image"
    /\ last.raised = "none"
    /\ saved.px = curr_img.px
    /\ saved.px # Pixels(curr_img.path)

\* The extensions the save dialog offers (lines 199-200).
save_exts == <<".png", ".jpg", ".bmp", ".gif", ".ico">>

\* C19: a save_image to a path whose extension is none of the five save
\* formats fails.
C19_UnsupportedSaveFormatFails ==
    (last.op = "save_image" /\ \A k \in DOMAIN save_exts : ~endswith(last.path, save_exts[k]))
        => last.raised # "none"

\* C20: in every reachable state the entries are exactly the scan of the
\* active directory: each is the active directory joined with the name of a
\* supported file in it.
C20_EntriesBelongToActiveDir ==
    Range(curr_dir_images) = scan_set(curr_dir)

====
